---- MODULE Spec2Model ----
(***************************************************************************)
(* KeplerGL metro pipeline: the Feed Assembler                             *)
(* (src/metro_bcn/create_dataframe.py) followed by the Line Geometry       *)
(* Builder (src/metro_bcn/create_geojson_file.py).                         *)
(*                                                                         *)
(* A table (pandas DataFrame) is a sequence of rows, a row is a record of  *)
(* its columns.  Identifiers are small integers (trip_id, stop_id,         *)
(* route_id) or strings (route_short_name); coordinates are integers       *)
(* (degrees * 100).  A time string "HH:MM:SS" is the tuple <<H, M, S>>, a   *)
(* missing cell of a time column is the empty tuple, a missing cell of a   *)
(* text column is the string "NaN".                                        *)
(*                                                                         *)
(* pandas operations are modelled by their documented behaviour:           *)
(*   merge(how="inner")  keeps the order of the left keys, every left row  *)
(*                       paired with every matching right row (a pandas    *)
(*                       that groups the result by key instead keeps each  *)
(*                       key's rows in left order as well);                *)
(*   dropna()            drops every row with a missing cell in ANY column; *)
(*   groupby(key)        sorted distinct keys, each group's rows in table   *)
(*                       order;                                            *)
(*   unique()            distinct values in order of first appearance.     *)
(* Not modelled: identifiers that read_csv would read back as another      *)
(* type or as missing, coordinates that are not numbers (pd.to_numeric     *)
(* raises on them), and seconds 60 and 61 of a time string.                *)
(***************************************************************************)
EXTENDS Integers, Sequences, FiniteSets, TLC

VARIABLES
    pc,             \* position in the pipeline
    in_trips,       \* data/trips.txt
    in_routes,      \* data/routes.txt
    in_stops,       \* data/stops.txt
    in_stop_times,  \* data/stop_times.txt
    trips,          \* create_dataframe.main: trips
    routes,         \* create_dataframe.main: routes
    stops,          \* create_dataframe.main: stops
    stop_times,     \* create_dataframe.main: stop_times
    final,          \* create_dataframe.main: final
    metro,          \* create_dataframe.main: metro
    metro_csv,      \* data/metro_data.csv (NoFile when absent)
    df,             \* create_geojson_file.main: df
    todo,           \* create_geojson_file.main: lines the loop has not reached yet
    features,       \* create_geojson_file.main: features of the current line
    geojson_files   \* geojson/<line>.geojson, as a function line -> document

vars == <<pc, in_trips, in_routes, in_stops, in_stop_times, trips, routes, stops,
          stop_times, final, metro, metro_csv, df, todo, features, geojson_files>>

----------------------------------------------------------------------------
(* Bounds of the model.                                                    *)

MaxTrips == 2
MaxRoutes == 2
MaxStops == 2
MaxTimedRows == 2
MaxMetroRows == 3

(* Program constants.                                                      *)

SubwayRouteType == 1
EpochYear == 1970
StrptimeDefaultYear == 1900
Elevation == 0

----------------------------------------------------------------------------
(* Generic helpers.                                                        *)

NaN == "NaN"

(* A file on disk: absent, partial (opened for writing, the write did not  *)
(* finish) or complete, with the rows or features written.                 *)
NoFile == [state |-> "absent", content |-> <<>>]
Partial == [state |-> "partial", content |-> <<>>]
Complete(content) == [state |-> "complete", content |-> content]

SeqsUpTo(S, n) == UNION {[1..k -> S] : k \in 0..n}
NonEmptySeqsUpTo(S, n) == SeqsUpTo(S, n) \ {<<>>}

Range(s) == {s[i] : i \in 1..Len(s)}

(* Series.unique(): the distinct values in order of first appearance.      *)
RECURSIVE Unique(_)
Unique(s) ==
    IF s = <<>> THEN <<>>
    ELSE LET init == Unique(SubSeq(s, 1, Len(s) - 1))
             last == s[Len(s)]
         IN  IF last \in Range(init) THEN init ELSE Append(init, last)

Column(tbl, col) == [i \in 1..Len(tbl) |-> tbl[i][col]]


RECURSIVE Flatten(_)
Flatten(ss) == IF ss = <<>> THEN <<>> ELSE Head(ss) \o Flatten(Tail(ss))

----------------------------------------------------------------------------
(* Dates and times.                                                        *)
(* A Timestamp is [date |-> <<year, month, day>>, secs |-> seconds of the  *)
(* day]; NaT is the missing Timestamp.  An integer number of seconds n is  *)
(* kept as [days |-> n \div 86400, seconds |-> n % 86400] (the normal form *)
(* of datetime.timedelta), because the values involved do not fit the      *)
(* 32-bit integers of the model checker.                                   *)

NaT == [date |-> <<0, 0, 0>>, secs |-> 0]

(* A parse that checks the shape of the text but not the ranges.           *)
ParseOKLenient(t) == Len(t) = 3

(* strptime with '%H:%M:%S': hour 0..23, minute 0..59, second 0..59.       *)
ParseOK(t) ==
    /\ Len(t) = 3
    /\ t[1] \in 0..23
    /\ t[2] \in 0..59
    /\ t[3] \in 0..59

(* pd.to_datetime(format='%H:%M:%S', errors='coerce') of one cell: a       *)
(* format without a date leaves the date at strptime's default, January 1  *)
(* of 1900; a cell that does not parse becomes NaT.                        *)
ToDatetime(t) ==
    IF ParseOK(t)
    THEN [date |-> <<StrptimeDefaultYear, 1, 1>>,
          secs |-> t[1] * 3600 + t[2] * 60 + t[3]]
    ELSE NaT

IsLeap(y) == (y % 4 = 0) /\ ((y % 100 # 0) \/ (y % 400 = 0))

DaysBeforeYear(y) ==
    LET p == y - 1 IN p * 365 + (p \div 4) - (p \div 100) + (p \div 400)

DaysBeforeMonth(y, m) ==
    LET d == <<0, 31, 59, 90, 120, 151, 181, 212, 243, 273, 304, 334>>
    IN  d[m] + (IF m > 2 /\ IsLeap(y) THEN 1 ELSE 0)

(* date.toordinal()                                                        *)
Ordinal(date) == DaysBeforeYear(date[1]) + DaysBeforeMonth(date[1], date[2]) + date[3]

(* (ts - datetime(1970,1,1)).total_seconds().astype(int) of one cell.      *)
ArrivalTimeInt(ts) ==
    [days |-> Ordinal(ts.date) - Ordinal(<<EpochYear, 1, 1>>), seconds |-> ts.secs]

(* The text to_csv writes for a Timestamp, "YYYY-MM-DD HH:MM:SS", as the   *)
(* tuple of its six numbers; read_csv reads it back as text.               *)
FormatTimestamp(ts) ==
    <<ts.date[1], ts.date[2], ts.date[3],
      ts.secs \div 3600, (ts.secs \div 60) % 60, ts.secs % 60>>

----------------------------------------------------------------------------
(* Feed Assembler: src/metro_bcn/create_dataframe.py                       *)

DropColumns(tbl, cols) ==
    [i \in 1..Len(tbl) |-> [c \in (DOMAIN tbl[i]) \ cols |-> tbl[i][c]]]

(* load_data(file_path, drop_columns)                                      *)
LoadData(file, drop_columns) == DropColumns(file, drop_columns)

(* A row of stop_times has a missing cell.  trip_id, stop_id and           *)
(* stop_sequence are never missing in the inputs of the model.             *)
HasNa(r) ==
    \/ r.arrival_time = NaT
    \/ r.departure_time = NaT
    \/ r.stop_headsign = NaN

(* dropna(subset=time_columns): only the time columns are looked at.       *)
DropNaTimesOnly(tbl) ==
    SelectSeq(tbl, LAMBDA r : r.arrival_time # NaT /\ r.departure_time # NaT)

DropNa(tbl) == SelectSeq(tbl, LAMBDA r : ~HasNa(r))

ConvertTimes(tbl) ==
    [i \in 1..Len(tbl) |->
        [tbl[i] EXCEPT !.arrival_time = ToDatetime(@),
                       !.departure_time = ToDatetime(@)]]

(* process_stop_times(df)                                                  *)
ProcessStopTimes(tbl) == DropNa(ConvertTimes(tbl))

(* A join that pairs every left row with every right row.                 *)
InnerJoinIgnoringKey(left, right, key) ==
    Flatten([i \in 1..Len(left) |-> [j \in 1..Len(right) |-> left[i] @@ right[j]]])

(* pd.merge(left, right, on=key, how="inner")                              *)
InnerJoin(left, right, key) ==
    Flatten([i \in 1..Len(left) |->
        LET m == SelectSeq(right, LAMBDA r : r[key] = left[i][key])
        IN  [j \in 1..Len(m) |-> left[i] @@ m[j]]])

(* main(), lines 96-102                                                    *)
MergeAll(t, r, s, st) ==
    LET tripsandroutes == InnerJoin(t, r, "route_id")
        final_stops == InnerJoin(st, s, "stop_id")
    IN  InnerJoin(final_stops, tripsandroutes, "trip_id")

(* The filter left out.                                                    *)
SubwayOnlyUnfiltered(tbl) == tbl

(* main(), line 104                                                        *)
SubwayOnly(tbl) == SelectSeq(tbl, LAMBDA r : r.route_type = SubwayRouteType)

(* main(), lines 105-106                                                   *)
AddColumns(tbl) ==
    [i \in 1..Len(tbl) |->
        tbl[i] @@ [arrival_time_int |-> ArrivalTimeInt(tbl[i].arrival_time),
                   elevation |-> Elevation]]

(* df.to_csv(file_path, index=False)                                       *)
ToCsv(tbl) ==
    [i \in 1..Len(tbl) |->
        [tbl[i] EXCEPT !.arrival_time = FormatTimestamp(@),
                       !.departure_time = FormatTimestamp(@)]]

AsmLoad ==
    /\ pc = "asm_load"
    /\ trips' = LoadData(in_trips, {"service_id"})
    /\ routes' = LoadData(in_routes, {"route_url"})
    /\ stops' = LoadData(in_stops, {"stop_name"})
    /\ stop_times' = LoadData(in_stop_times, {})
    /\ pc' = "asm_process"
    /\ UNCHANGED <<in_trips, in_routes, in_stops, in_stop_times, final, metro,
                   metro_csv, df, todo, features, geojson_files>>

(* load_data raises (an I/O error): main logs and re-raises.               *)
AsmLoadFail ==
    /\ pc = "asm_load"
    /\ pc' = "asm_failed"
    /\ UNCHANGED <<in_trips, in_routes, in_stops, in_stop_times, trips, routes,
                   stops, stop_times, final, metro, metro_csv, df, todo, features,
                   geojson_files>>

AsmProcess ==
    /\ pc = "asm_process"
    /\ stop_times' = ProcessStopTimes(stop_times)
    /\ pc' = "asm_merge"
    /\ UNCHANGED <<in_trips, in_routes, in_stops, in_stop_times, trips, routes,
                   stops, final, metro, metro_csv, df, todo, features, geojson_files>>

AsmMerge ==
    /\ pc = "asm_merge"
    /\ final' = MergeAll(trips, routes, stops, stop_times)
    /\ pc' = "asm_metro"
    /\ UNCHANGED <<in_trips, in_routes, in_stops, in_stop_times, trips, routes,
                   stops, stop_times, metro, metro_csv, df, todo, features,
                   geojson_files>>

(* Lines 104-106.  astype(int) raises on a missing value, with metro       *)
(* already bound to the filtered table.                                    *)
AsmMetro ==
    /\ pc = "asm_metro"
    /\ LET m == SubwayOnly(final)
       IN  IF \E i \in 1..Len(m) : m[i].arrival_time = NaT
           THEN /\ metro' = m
                /\ pc' = "asm_failed"
           ELSE /\ metro' = AddColumns(m)
                /\ pc' = "asm_save"
    /\ UNCHANGED <<in_trips, in_routes, in_stops, in_stop_times, trips, routes,
                   stops, stop_times, final, metro_csv, df, todo, features,
                   geojson_files>>

(* save_to_csv(metro, 'metro_data.csv', data_dir)                          *)
AsmSave ==
    /\ pc = "asm_save"
    /\ metro_csv' = Complete(ToCsv(metro))
    /\ pc' = "asm_done"
    /\ UNCHANGED <<in_trips, in_routes, in_stops, in_stop_times, trips, routes,
                   stops, stop_times, final, metro, df, todo, features,
                   geojson_files>>

(* save_to_csv raises: before the file is opened (makedirs, open) the file *)
(* is untouched, after it (a failed write) a partial file is left.         *)
AsmSaveFail ==
    /\ pc = "asm_save"
    /\ \E left \in {metro_csv, Partial} : metro_csv' = left
    /\ pc' = "asm_failed"
    /\ UNCHANGED <<in_trips, in_routes, in_stops, in_stop_times, trips, routes,
                   stops, stop_times, final, metro, df, todo, features,
                   geojson_files>>


(* The second script is run once the first has written its file.           *)
RunBuilder ==
    /\ pc = "asm_done"
    /\ pc' = "geo_load"
    /\ UNCHANGED <<in_trips, in_routes, in_stops, in_stop_times, trips, routes,
                   stops, stop_times, final, metro, metro_csv, df, todo, features,
                   geojson_files>>

----------------------------------------------------------------------------
(* Line Geometry Builder: src/metro_bcn/create_geojson_file.py             *)

(* load_metro_data(file_path): the cells as to_csv wrote them.             *)
ReadCsv(file) == file.content

RECURSIVE SortedSeq(_)
SortedSeq(S) ==
    IF S = {} THEN <<>>
    ELSE LET least == CHOOSE x \in S : \A y \in S : x <= y
         IN  <<least>> \o SortedSeq(S \ {least})

(* A grouping that turns each group's rows around.                         *)
GroupByReversed(tbl, col) ==
    LET keys == SortedSeq(Range(Column(tbl, col)))
    IN  [k \in 1..Len(keys) |->
            LET g == SelectSeq(tbl, LAMBDA r : r[col] = keys[k])
            IN  [key |-> keys[k], rows |-> [i \in 1..Len(g) |-> g[Len(g) + 1 - i]]]]

(* dict(tuple(tbl.groupby(col))): the keys in ascending order, each with   *)
(* its rows in table order.                                                *)
GroupBy(tbl, col) ==
    LET keys == SortedSeq(Range(Column(tbl, col)))
    IN  [k \in 1..Len(keys) |->
            [key |-> keys[k],
             rows |-> SelectSeq(tbl, LAMBDA r : r[col] = keys[k])]]

(* The selection of the line left out.                                     *)
LineRowsUnfiltered(d, line) == d

(* The rows of df a line's document is built from, line 55.                *)
LineRows(d, line) == SelectSeq(d, LAMBDA r : r.route_short_name = line)

(* One point of a geometry, lines 60-68.                                   *)
Point(r) == <<r.stop_lon, r.stop_lat, r.elevation, r.arrival_time_int>>

(* One feature, lines 60-77.                                               *)
Feature(trip_data) ==
    [geometry |-> [i \in 1..Len(trip_data) |-> Point(trip_data[i])],
     properties |-> [trip |-> Unique(Column(trip_data, "trip_id")),
                     stop |-> Unique(Column(trip_data, "stop_id")),
                     route |-> Unique(Column(trip_data, "route_short_name"))]]

(* create_geojson_features(df, line)                                       *)
CreateGeojsonFeatures(d, line) ==
    LET trips_dict == GroupBy(LineRows(d, line), "trip_id")
    IN  [k \in 1..Len(trips_dict) |-> Feature(trips_dict[k].rows)]

(* main(), lines 112-116                                                   *)
GeoLoad ==
    /\ pc = "geo_load"
    /\ metro_csv.state = "complete"
    /\ df' = ReadCsv(metro_csv)
    /\ todo' = Unique(Column(df', "route_short_name"))
    /\ pc' = "geo_loop"
    /\ UNCHANGED <<in_trips, in_routes, in_stops, in_stop_times, trips, routes,
                   stops, stop_times, final, metro, metro_csv, features,
                   geojson_files>>

(* ensure_directory_exists or load_metro_data raises.                      *)
GeoLoadFail ==
    /\ pc = "geo_load"
    /\ pc' = "geo_failed"
    /\ UNCHANGED <<in_trips, in_routes, in_stops, in_stop_times, trips, routes,
                   stops, stop_times, final, metro, metro_csv, df, todo, features,
                   geojson_files>>

(* main(), line 119, for the next line of the loop                         *)
GeoFeatures ==
    /\ pc = "geo_loop"
    /\ todo # <<>>
    /\ features' = CreateGeojsonFeatures(df, Head(todo))
    /\ pc' = "geo_save"
    /\ UNCHANGED <<in_trips, in_routes, in_stops, in_stop_times, trips, routes,
                   stops, stop_times, final, metro, metro_csv, df, todo,
                   geojson_files>>

(* save_geojson_file(features, output_file), lines 121-122                 *)
GeoSave ==
    /\ pc = "geo_save"
    /\ geojson_files' = (Head(todo) :> Complete(features)) @@ geojson_files
    /\ todo' = Tail(todo)
    /\ pc' = "geo_loop"
    /\ UNCHANGED <<in_trips, in_routes, in_stops, in_stop_times, trips, routes,
                   stops, stop_times, final, metro, metro_csv, df, features>>

(* save_geojson_file raises: before open() the line's file is untouched,   *)
(* inside the with block (geojson.dump) a partial file is left.  main      *)
(* re-raises, so the loop stops at this line.                              *)
GeoSaveFail ==
    /\ pc = "geo_save"
    /\ \/ UNCHANGED geojson_files
       \/ geojson_files' = (Head(todo) :> Partial) @@ geojson_files
    /\ pc' = "geo_failed"
    /\ UNCHANGED <<in_trips, in_routes, in_stops, in_stop_times, trips, routes,
                   stops, stop_times, final, metro, metro_csv, df, todo, features>>

(* The loop is over: "All lines processed successfully".                   *)
GeoFinish ==
    /\ pc = "geo_loop"
    /\ todo = <<>>
    /\ pc' = "geo_done"
    /\ UNCHANGED <<in_trips, in_routes, in_stops, in_stop_times, trips, routes,
                   stops, stop_times, final, metro, metro_csv, df, todo, features,
                   geojson_files>>

----------------------------------------------------------------------------
(* Inputs.                                                                 *)

TripIds == {1, 2}
StopIds == {1, 2}
LineNames == {"L1", "L2"}

TripsFileRow(t, r) == [trip_id |-> t, route_id |-> r, service_id |-> 1]

RoutesFileRow(r, name, type) ==
    [route_id |-> r, route_short_name |-> name, route_type |-> type, route_url |-> "u"]

StopRow(s) ==
    [stop_id |-> s, stop_lat |-> 4138 + s, stop_lon |-> 217 + s, stop_name |-> "n"]

StopTimeRow(t, s, q, arr, dep, h) ==
    [trip_id |-> t, arrival_time |-> arr, departure_time |-> dep, stop_id |-> s,
     stop_sequence |-> q, stop_headsign |-> h]

(* Feeds with repeated keys and non-subway routes: trip 1 runs on route 1  *)
(* and trip 2 on route 2, route 1 is a subway line, route 2 occurs as a    *)
(* subway line and as a line of type 3 (bus), and the short names overlap. *)
TripsFileRows == {TripsFileRow(1, 1), TripsFileRow(2, 2)}

RoutesFileRows ==
    {RoutesFileRow(1, "L1", 1), RoutesFileRow(1, "L2", 1),
     RoutesFileRow(2, "L2", 1), RoutesFileRow(2, "L1", 3)}

JoinStopTimes ==
    <<StopTimeRow(1, 1, 1, <<8, 0, 0>>, <<8, 0, 30>>, "h"),
      StopTimeRow(2, 1, 1, <<8, 15, 30>>, <<8, 16, 0>>, "h")>>

(* Feeds of a subway trip 1 and a bus trip 2 whose stop_times rows vary:   *)
(* the stop visited is the one of the row's stop_sequence, and one row of  *)
(* the subway trip has no arrival time at all.                             *)
Visits == {<<1, 1>>, <<1, 2>>, <<2, 1>>}
ArrivalStrings == {<<8, 0, 0>>, <<8, 15, 30>>, <<25, 61, 0>>}
DepartureStrings == {<<8, 16, 0>>, <<24, 0, 0>>}
Headsigns == {"h", NaN}

TimedStopTimeRows ==
    {StopTimeRow(v[1], v[2], v[2], arr, dep, h) :
        v \in Visits, arr \in ArrivalStrings, dep \in DepartureStrings, h \in Headsigns}
    \cup {StopTimeRow(1, 1, 1, <<>>, <<8, 16, 0>>, "h")}

(* Rows of data/metro_data.csv for the Builder run on its own.             *)
MetroCsvRows ==
    {[trip_id |-> t, stop_id |-> s, route_short_name |-> l,
      stop_lat |-> 4138 + s, stop_lon |-> 217 + s, elevation |-> Elevation,
      arrival_time_int |-> [days |-> 0, seconds |-> 28800 + 60 * s]] :
        t \in TripIds, s \in StopIds, l \in LineNames}

Fresh ==
    /\ trips = <<>>
    /\ routes = <<>>
    /\ stops = <<>>
    /\ stop_times = <<>>
    /\ final = <<>>
    /\ metro = <<>>
    /\ df = <<>>
    /\ todo = <<>>
    /\ features = <<>>
    /\ geojson_files = <<>>

Init ==
    /\ pc = "asm_load"
    /\ in_trips \in NonEmptySeqsUpTo(TripsFileRows, MaxTrips)
    /\ in_routes \in NonEmptySeqsUpTo(RoutesFileRows, MaxRoutes)
    /\ in_stops \in NonEmptySeqsUpTo({StopRow(1)}, MaxStops)
    /\ in_stop_times = JoinStopTimes
    /\ metro_csv = NoFile
    /\ Fresh

InitTimes ==
    /\ pc = "asm_load"
    /\ in_trips = <<TripsFileRow(1, 1), TripsFileRow(2, 2)>>
    /\ in_routes = <<RoutesFileRow(1, "L1", 1), RoutesFileRow(2, "L2", 3)>>
    /\ in_stops = <<StopRow(1), StopRow(2)>>
    /\ in_stop_times \in SeqsUpTo(TimedStopTimeRows, MaxTimedRows)
    /\ metro_csv = NoFile
    /\ Fresh

InitGeo ==
    /\ pc = "geo_load"
    /\ in_trips = <<>>
    /\ in_routes = <<>>
    /\ in_stops = <<>>
    /\ in_stop_times = <<>>
    /\ metro_csv \in {Complete(rows) : rows \in SeqsUpTo(MetroCsvRows, MaxMetroRows)}
    /\ Fresh

NextGeo ==
    \/ GeoLoad
    \/ GeoLoadFail
    \/ GeoFeatures
    \/ GeoSave
    \/ GeoSaveFail
    \/ GeoFinish

Next ==
    \/ AsmLoad
    \/ AsmLoadFail
    \/ AsmProcess
    \/ AsmMerge
    \/ AsmMetro
    \/ AsmSave
    \/ AsmSaveFail
    \/ RunBuilder
    \/ NextGeo

Spec == Init /\ [][Next]_vars

SpecTimes == InitTimes /\ [][Next]_vars

SpecGeo == InitGeo /\ [][NextGeo]_vars


----------------------------------------------------------------------------
(* Vocabulary of the properties.                                           *)

UniqueKey(tbl, key) ==
    \A i, j \in 1..Len(tbl) : tbl[i][key] = tbl[j][key] => i = j

(* A time string is a well formed HH:MM:SS time of day.                    *)
ValidClock(t) == Len(t) = 3 /\ t[1] <= 23 /\ t[2] <= 59 /\ t[3] <= 59 /\ t[1] >= 0

SecondsOfDay(t) == t[1] * 3600 + t[2] * 60 + t[3]

Written == metro_csv.state = "complete"

CompleteLines == {l \in DOMAIN geojson_files : geojson_files[l].state = "complete"}

----------------------------------------------------------------------------
(* C1 as stated: the table written by the Assembler never has more rows    *)
(* than the input stop_times table, whatever the input tables.             *)
C1_RowCountBounded ==
    Written => Len(metro_csv.content) <= Len(in_stop_times)

(* C1 as amended: when route_id is unique in routes, stop_id in stops and  *)
(* trip_id in trips, the table written by the Assembler has no more rows   *)
(* than the input stop_times table.                                        *)
C1_RowCountBoundedUniqueKeys ==
    (/\ Written
     /\ UniqueKey(in_routes, "route_id")
     /\ UniqueKey(in_stops, "stop_id")
     /\ UniqueKey(in_trips, "trip_id"))
    => Len(metro_csv.content) <= Len(in_stop_times)

(* A feed with unique keys, two routes and two trips, whose written table  *)
(* lost a stop_times row to the filter or a join and kept the other.       *)
C1_Witness ==
    /\ Written
    /\ UniqueKey(in_routes, "route_id")
    /\ UniqueKey(in_stops, "stop_id")
    /\ UniqueKey(in_trips, "trip_id")
    /\ Len(in_routes) = 2
    /\ Len(in_trips) = 2
    /\ Len(metro_csv.content) = 1
    /\ Len(in_stop_times) = 2


----------------------------------------------------------------------------
(* C3: a stage that fails leaves no new output file; in particular, when   *)
(* the Builder's main() has failed, no line document written by the run    *)
(* exists (the output directory was clean when the run started).  A file   *)
(* left half written is not counted as a document here.                    *)
C3_FailedStageLeavesNoOutput ==
    /\ pc = "asm_failed" => metro_csv.state # "complete"
    /\ pc = "geo_failed" => CompleteLines = {}

----------------------------------------------------------------------------
(* A routes row of the input that is not a subway row.                     *)
NonSubwayRows == {i \in 1..Len(in_routes) : in_routes[i].route_type # SubwayRouteType}

(* An assembled row that carries the routes row rr.                        *)
BuiltFrom(r, rr) ==
    /\ r.route_id = rr.route_id
    /\ r.route_short_name = rr.route_short_name
    /\ r.route_type = rr.route_type

(* C4 as stated: for every routes row whose route_type is not 1 the        *)
(* assembled table has no row of a trip on that route (no row that carries *)
(* that routes row), and no output file is named after the row's           *)
(* route_short_name.                                                       *)
C4_NonSubwayRowLeavesNothing ==
    \A i \in NonSubwayRows :
        /\ \A k \in 1..Len(metro) : ~BuiltFrom(metro[k], in_routes[i])
        /\ in_routes[i].route_short_name \notin DOMAIN geojson_files

(* C4 as amended: for every routes row whose route_type is not 1, no       *)
(* assembled row carries that routes row, and a file named after its       *)
(* route_short_name is written only when a routes row of type 1 with the   *)
(* same short name has rows in the assembled table.                        *)
C4_NonSubwayRowContributesNothing ==
    \A i \in NonSubwayRows :
        /\ \A k \in 1..Len(metro) : ~BuiltFrom(metro[k], in_routes[i])
        /\ in_routes[i].route_short_name \in DOMAIN geojson_files
            => \E j \in 1..Len(in_routes) :
                /\ in_routes[j].route_type = SubwayRouteType
                /\ in_routes[j].route_short_name = in_routes[i].route_short_name
                /\ \E k \in 1..Len(metro) : BuiltFrom(metro[k], in_routes[j])

(* The Builder has finished on a feed whose bus route has a trip with stop *)
(* times, and wrote a file for another line but none for the bus route's.  *)
C4_Witness ==
    /\ pc = "geo_done"
    /\ DOMAIN geojson_files # {}
    /\ \E i \in NonSubwayRows :
        /\ in_routes[i].route_short_name \notin DOMAIN geojson_files
        /\ \E t \in 1..Len(in_trips), q \in 1..Len(in_stop_times) :
            /\ in_trips[t].route_id = in_routes[i].route_id
            /\ in_stop_times[q].trip_id = in_trips[t].trip_id

----------------------------------------------------------------------------
(* C5: when the joins or the subway filter leave no row, main() fails and  *)
(* writes no metro_data.csv: the run never gets past the filter with an    *)
(* empty table, and a written file is never an empty table.                *)
C5_EmptyTableIsFailure ==
    /\ pc \in {"asm_save", "asm_done"} => metro # <<>>
    /\ Written => metro_csv.content # <<>>


----------------------------------------------------------------------------
(* The rows of the assembled table once lines 104-106 have run.            *)
Assembled == IF pc \in {"asm_load", "asm_process", "asm_merge", "asm_metro", "asm_failed"}
             THEN <<>> ELSE metro

(* C2: the elapsed-seconds field of every assembled row is the number of   *)
(* seconds since midnight of the row's arrival time, H*3600 + M*60 + S.    *)
C2_ElapsedIsSecondsSinceMidnight ==
    \A k \in 1..Len(Assembled) :
        Assembled[k].arrival_time_int =
            [days |-> 0, seconds |-> Assembled[k].arrival_time.secs]

----------------------------------------------------------------------------
(* The stop_times rows of the input file that an assembled row or a point  *)
(* can come from: both times well formed, of a trip on a subway route.     *)
GoodVisits ==
    {q \in 1..Len(in_stop_times) :
        /\ ValidClock(in_stop_times[q].arrival_time)
        /\ ValidClock(in_stop_times[q].departure_time)
        /\ \E t \in 1..Len(in_trips), i \in 1..Len(in_routes) :
            /\ in_trips[t].trip_id = in_stop_times[q].trip_id
            /\ in_routes[i].route_id = in_trips[t].route_id
            /\ in_routes[i].route_type = SubwayRouteType}

(* C7: every row of the assembled table has route_type 1 and both times    *)
(* parsed, and is the row of a stop_times input row whose two times are    *)
(* well formed; every point of every output geometry is the point of such  *)
(* an input row.                                                           *)
C7_SurvivorsAreSubwayAndParsed ==
    /\ \A k \in 1..Len(metro) :
        /\ metro[k].route_type = SubwayRouteType
        /\ metro[k].arrival_time # NaT
        /\ metro[k].departure_time # NaT
        /\ \E q \in GoodVisits :
            /\ in_stop_times[q].trip_id = metro[k].trip_id
            /\ in_stop_times[q].stop_id = metro[k].stop_id
            /\ in_stop_times[q].stop_sequence = metro[k].stop_sequence
            /\ SecondsOfDay(in_stop_times[q].arrival_time) = metro[k].arrival_time.secs
            /\ SecondsOfDay(in_stop_times[q].departure_time) = metro[k].departure_time.secs
    /\ \A l \in CompleteLines :
        \A f \in 1..Len(geojson_files[l].content) :
            LET feature == geojson_files[l].content[f]
            IN  \A n \in 1..Len(feature.geometry) :
                    \E q \in GoodVisits, s \in 1..Len(in_stops) :
                        /\ feature.properties.trip = <<in_stop_times[q].trip_id>>
                        /\ in_stops[s].stop_id = in_stop_times[q].stop_id
                        /\ feature.geometry[n][1] = in_stops[s].stop_lon
                        /\ feature.geometry[n][2] = in_stops[s].stop_lat
                        /\ feature.geometry[n][4].seconds =
                               SecondsOfDay(in_stop_times[q].arrival_time)

(* The Builder has finished a feed of two stop_times rows of the subway    *)
(* trip, one of them with a well formed arrival time and an unparseable    *)
(* departure time, and wrote a geometry for the one row that survived.     *)
C7_Witness ==
    /\ pc = "geo_done"
    /\ Len(in_stop_times) = 2
    /\ Len(metro) = 1
    /\ CompleteLines # {}
    /\ \E q \in 1..Len(in_stop_times) :
        /\ ValidClock(in_stop_times[q].arrival_time)
        /\ ~ValidClock(in_stop_times[q].departure_time)
        /\ in_stop_times[q].stop_headsign # NaN
        /\ in_stop_times[q].trip_id = 1

----------------------------------------------------------------------------
(* The sequences whose elements are the elements of s, in any order.       *)
Reorderings(s) ==
    {[i \in 1..Len(s) |-> s[p[i]]] :
        p \in {f \in [1..Len(s) -> 1..Len(s)] : \A a, b \in 1..Len(s) : f[a] = f[b] => a = b}}

(* C9: the points of every trip feature are in stop visitation order: they *)
(* are the points of the trip's assembled rows on the line, taken in an    *)
(* order of ascending stop_sequence.                                       *)
C9_PointsInStopSequenceOrder ==
    \A l \in CompleteLines :
        \A f \in 1..Len(geojson_files[l].content) :
            LET feature == geojson_files[l].content[f]
                rows == SelectSeq(metro, LAMBDA r :
                            /\ r.route_short_name = l
                            /\ <<r.trip_id>> = feature.properties.trip)
            IN  \E visit \in Reorderings(rows) :
                    /\ \A a, b \in 1..Len(visit) :
                        a < b => visit[a].stop_sequence <= visit[b].stop_sequence
                    /\ feature.geometry = [n \in 1..Len(visit) |-> Point(visit[n])]

----------------------------------------------------------------------------
(* The rows kept of stop_times, with their times as Timestamps.            *)
WithTimestamps(kept) ==
    [i \in 1..Len(kept) |->
        [kept[i] EXCEPT
            !.arrival_time = [date |-> <<StrptimeDefaultYear, 1, 1>>,
                              secs |-> SecondsOfDay(@)],
            !.departure_time = [date |-> <<StrptimeDefaultYear, 1, 1>>,
                                secs |-> SecondsOfDay(@)]]]

BothTimesValid(r) == ValidClock(r.arrival_time) /\ ValidClock(r.departure_time)

NoCellMissing(r) == BothTimesValid(r) /\ r.stop_headsign # NaN

(* C10 as stated: process_stop_times removes a row exactly when one of its *)
(* two times fails to parse; every other row is kept, in order.            *)
C10_DroppedIffTimeUnparseable ==
    pc = "asm_merge" => stop_times = WithTimestamps(SelectSeq(in_stop_times, BothTimesValid))

(* C10 as amended: process_stop_times removes a row exactly when one of    *)
(* its two times fails to parse or any other cell of the row is missing.   *)
C10_DroppedIffAnyCellMissing ==
    pc = "asm_merge" => stop_times = WithTimestamps(SelectSeq(in_stop_times, NoCellMissing))

(* process_stop_times has kept one row and dropped a row whose two times   *)
(* parse and whose stop_headsign is missing.                               *)
C10_Witness ==
    /\ pc = "asm_merge"
    /\ Len(stop_times) = 1
    /\ \E q \in 1..Len(in_stop_times) :
        /\ BothTimesValid(in_stop_times[q])
        /\ in_stop_times[q].stop_headsign = NaN

----------------------------------------------------------------------------
(* The rows of df of trip t.                                               *)
TripRows(t) == SelectSeq(df, LAMBDA r : r.trip_id = t)

(* The rows of df of trip t on line l.                                     *)
TripRowsOnLine(t, l) ==
    SelectSeq(df, LAMBDA r : r.trip_id = t /\ r.route_short_name = l)

(* C6 as stated: the number of points of every feature is the number of    *)
(* rows of the whole assembled table with the feature's trip_id.           *)
C6_PointCountIsTripRowCount ==
    \A l \in CompleteLines :
        \A f \in 1..Len(geojson_files[l].content) :
            LET feature == geojson_files[l].content[f]
            IN  Len(feature.geometry) = Len(TripRows(feature.properties.trip[1]))

(* C6 as amended: the number of points of every feature of a line's        *)
(* document is the number of rows of the assembled table with the          *)
(* feature's trip_id and that line's route_short_name.                     *)
C6_PointCountIsTripRowCountOnLine ==
    \A l \in CompleteLines :
        \A f \in 1..Len(geojson_files[l].content) :
            LET feature == geojson_files[l].content[f]
            IN  /\ Len(feature.properties.trip) = 1
                /\ Len(feature.geometry) =
                       Cardinality({k \in 1..Len(df) :
                           /\ df[k].trip_id = feature.properties.trip[1]
                           /\ df[k].route_short_name = l})

(* A document holds a feature of a trip that has rows under another        *)
(* route_short_name too.                                                   *)
C6_Witness ==
    \E l \in CompleteLines :
        \E f \in 1..Len(geojson_files[l].content) :
            LET feature == geojson_files[l].content[f]
            IN  /\ Len(feature.geometry) = 2
                /\ \E k \in 1..Len(df) :
                    /\ df[k].trip_id = feature.properties.trip[1]
                    /\ df[k].route_short_name # l

(* C8: the document of every line has one feature per trip of the line,    *)
(* and the feature's points are the points of the assembled rows of that   *)
(* trip on that line, one per row, in the order of the rows in the table.  *)
C8_OnePointPerRowInTableOrder ==
    \A l \in CompleteLines :
        LET doc == geojson_files[l].content
        IN  /\ \A k \in 1..Len(df) :
                df[k].route_short_name = l =>
                    \E f \in 1..Len(doc) : doc[f].properties.trip = <<df[k].trip_id>>
            /\ \A f, g \in 1..Len(doc) :
                doc[f].properties.trip = doc[g].properties.trip => f = g
            /\ \A f \in 1..Len(doc) :
                \E t \in TripIds :
                    LET rows == TripRowsOnLine(t, l)
                    IN  /\ doc[f].properties.trip = <<t>>
                        /\ Len(doc[f].geometry) = Len(rows)
                        /\ \A n \in 1..Len(rows) :
                            doc[f].geometry[n] =
                                <<rows[n].stop_lon, rows[n].stop_lat,
                                  rows[n].elevation, rows[n].arrival_time_int>>

(* A document holds a feature of two different points whose rows are       *)
(* separated in the table by a row of another trip of the same line.       *)
C8_Witness ==
    \E l \in CompleteLines :
        /\ Len(df) = 3
        /\ df[1].trip_id = df[3].trip_id
        /\ df[2].trip_id # df[1].trip_id
        /\ df[1].stop_id # df[3].stop_id
        /\ \A k \in 1..3 : df[k].route_short_name = l
        /\ Len(geojson_files[l].content) = 2

====
